---- MODULE Spec2Model ----
(***************************************************************************)
(* Model of the OpenCode server supervisor of opencode-telegram-mirror:    *)
(* the module-level slot `server`, startServer / waitForServer /           *)
(* getOpenPort / getServer / stopServer and the child-process event        *)
(* handlers registered by startServer.                                     *)
(*                                                                         *)
(* Every invocation of startServer that gets past the reuse check is kept  *)
(* as one record of `seqs`; the child process it spawns (at most one) is   *)
(* part of the same record, so an instance, its start sequence and its     *)
(* subprocess share one index.  The JavaScript event loop runs one         *)
(* callback at a time: each action is one callback (or one API call) up to *)
(* its next suspension point.                                              *)
(***************************************************************************)
EXTENDS Integers, Sequences, FiniteSets, TLC

\* ---------------------------------------------------------------- bounds
\* number of startServer invocations (past the reuse check) in one run
MaxSeqs == 2
\* probes per waitForServer call (the code's default is 30)
MaxAttempts == 2
\* the `limit = 10` of the mock server's getNextUpdates
Limit == 2
\* number of updates the mock server holds, and the largest update_id
MaxUpdates == 3
MaxId == 3

\* ------------------------------------------------------------ environment
Dirs == {"a", "b"}
Ports == {1, 2}
\* texts process.env.OPENCODE_PORT can hold, and the two of them the
\* supervisor is run under
EnvTexts == {"unset", "", "0", "abc", "1", "2"}
EnvPortValues == {"unset", "1"}
\* what spawn() does: "ok" the child runs; "error" the OS could not create
\* it and the child object emits 'error' (no 'exit' follows); "throw" spawn
\* itself throws
SpawnOutcomes == {"ok", "error", "throw"}
\* exit codes reported to the 'exit' listener; NullCode is the `null`
\* reported when the child was terminated by a signal
NullCode == -1
ExitCodes == {0, 1, NullCode}

VARIABLES
    server,      \* the slot: 0 for null, else the index of the instance
    seqs,        \* startServer invocations, with their child process
    envPort,     \* process.env.OPENCODE_PORT
    ret,         \* what the API call or completion of this step delivered
    flow,        \* one startServer invocation seen through its `port`
    cfg,         \* one loadConfig call: its inputs, position and result
    mock         \* the mock server of test/mock-server.ts and one client

vars == <<server, seqs, envPort, ret, flow, cfg, mock>>

NoRet == [kind |-> "none", inst |-> 0]

\* no invocation is being followed, no loadConfig call is being made
NoFlow == [pc |-> "idle"]
NoConfig == [pc |-> "idle"]
NoMock == [pc |-> "idle"]

Ids == 1..Len(seqs)

\* startServer taking every port from getOpenPort
parsedPortMut(e) == 0

\* lines 252-253: the port OPENCODE_PORT forces, 0 when one must be
\* allocated: parsedPort is null when the variable is unset or empty, and
\* `parsedPort && !Number.isNaN(parsedPort)` is falsy for 0 and for NaN
parsedPort(e) ==
    CASE e = "unset" -> 0
      [] e = ""      -> 0
      [] e = "0"     -> 0
      [] e = "abc"   -> 0
      [] e = "1"     -> 1
      [] e = "2"     -> 2

\* a startServer invocation and the child it spawned
\*   origin    0 for an explicit call, else the index of the exited child
\*             whose exit handler made the call
\*   pc        "alloc"  suspended in getOpenPort
\*             "probe"  suspended in waitForServer
\*             "ready"  returned its instance
\*             "failed" rejected
\*   attempts  the loop counter of waitForServer while it runs
\*   proc      "none" not spawned, "failed" never created, "running",
\*             "exited"
\* startServer launching every child in one fixed directory
RecMut(d, org, pc, err) ==
    [directory |-> "a", origin |-> org, pc |-> pc, err |-> err, port |-> 0,
     attempts |-> 0, proc |-> "none", killed |-> FALSE]

Rec(d, org, pc, err) ==
    [directory |-> d, origin |-> org, pc |-> pc, err |-> err, port |-> 0,
     attempts |-> 0, proc |-> "none", killed |-> FALSE]

\* spawn(opencodePath, ["serve", "--port", port], {cwd: directory}) and the
\* registration of the listeners; unless spawn throws, the invocation then
\* awaits waitForServer
spawn(r, port, outcome) ==
    CASE outcome = "ok" ->
           [r EXCEPT !.port = port, !.proc = "running", !.pc = "probe"]
      [] outcome = "error" ->
           [r EXCEPT !.port = port, !.proc = "failed", !.pc = "probe"]
      [] outcome = "throw" ->
           [r EXCEPT !.pc = "failed", !.err = "SpawnError"]

\* a rejection that reaches the caller of a restart as well
deliverMut(org, out) == out

\* what reaches a caller: the promise of an explicit call settles for its
\* caller; the exit listener's call has only the logging catch of line 295
deliver(org, out) == IF org = 0 THEN out ELSE NoRet

\* reuse check with the negation of `killed` lost
reuseMut(srv, sq) == srv # 0 /\ sq[srv].killed

\* the reuse check of startServer
reuse(srv, sq) == srv # 0 /\ ~sq[srv].killed

\* startServer(directory) up to its first suspension point, called with the
\* slot value srv and the invocations sq; access is the outcome of
\* fs.accessSync(directory, R_OK | X_OK) at the time of the call and
\* outcome what spawn does if the call gets to it
startServer(srv, sq, env, d, access, outcome, org) ==
    IF reuse(srv, sq)
    THEN [seqs |-> sq, out |-> [kind |-> "reuse", inst |-> srv]]
    ELSE IF ~access
    THEN [seqs |-> Append(sq, Rec(d, org, "failed", "DirectoryError")),
          out  |-> [kind |-> "DirectoryError", inst |-> 0]]
    ELSE IF parsedPort(env) # 0
    THEN [seqs |-> Append(sq, spawn(Rec(d, org, "alloc", "none"),
                                    parsedPort(env), outcome)),
          out  |-> IF outcome = "throw"
                   THEN [kind |-> "SpawnError", inst |-> 0] ELSE NoRet]
    ELSE [seqs |-> Append(sq, Rec(d, org, "alloc", "none")),
          out  |-> NoRet]

\* ports some running child of the supervisor was told to serve
Served == {seqs[j].port : j \in {k \in Ids : seqs[k].proc = "running"}}

Init ==
    /\ server = 0
    /\ seqs = <<>>
    /\ envPort \in EnvPortValues
    /\ ret = NoRet
    /\ flow = NoFlow
    /\ cfg = NoConfig
    /\ mock = NoMock

\* the directories a caller can pass: any, and the first one passed is
\* called "a"
Startable == IF seqs = <<>> THEN {"a"} ELSE Dirs

\* an explicit call of startServer(d)
StartCall(d, access, outcome) ==
    /\ reuse(server, seqs) \/ Len(seqs) < MaxSeqs
    /\ d \in Startable
    /\ LET r == startServer(server, seqs, envPort, d, access, outcome, 0)
       IN /\ seqs' = r.seqs
          /\ ret' = r.out
    /\ UNCHANGED <<server, envPort, flow, cfg, mock>>

\* the ports getOpenPort can resolve with: server.listen(0) takes whatever
\* the system hands out, and the first port handed out is called 1
Allocatable == IF \A j \in Ids : seqs[j].port = 0 THEN {1} ELSE Ports

\* getOpenPort resolves with a port; startServer resumes and spawns
AllocOk(i, p, outcome) ==
    /\ seqs[i].pc = "alloc"
    /\ p \in Allocatable
    /\ seqs' = [seqs EXCEPT ![i] = spawn(@, p, outcome)]
    /\ ret' = IF outcome = "throw"
              THEN deliver(seqs[i].origin, [kind |-> "SpawnError", inst |-> 0])
              ELSE NoRet
    /\ UNCHANGED <<server, envPort, flow, cfg, mock>>

\* getOpenPort rejects
AllocFail(i) ==
    /\ seqs[i].pc = "alloc"
    /\ seqs' = [seqs EXCEPT ![i].pc = "failed", ![i].err = "PortError"]
    /\ ret' = deliver(seqs[i].origin, [kind |-> "PortError", inst |-> 0])
    /\ UNCHANGED <<server, envPort, flow, cfg, mock>>

\* what one fetch of waitForServer delivers: Threw when it throws (refused
\* connection, 2 s timeout), else the status of the response
Threw == 0
Responses == {Threw, 200, 404, 500}

\* readiness test that also accepts status 500
probeSucceedsMut(r) == r # Threw /\ r <= 500

\* lines 223-228: the attempt makes waitForServer return true
probeSucceeds(r) == r # Threw /\ r < 500

\* startServer returning its instance without assigning the slot
recordMut(srv, i) == srv

\* line 321: the slot after waitForServer returned to invocation i
record(srv, i) == i

\* loop of waitForServer running one attempt more than maxAttempts
exhaustedMut(n) == ~(n <= MaxAttempts)

\* line 221: the loop condition `i < maxAttempts` fails for the counter n
exhausted(n) == ~(n < MaxAttempts)

\* one attempt of waitForServer for invocation i, with the outcome r of its
\* fetch.  On success startServer resumes, builds the clients, assigns the
\* slot and returns; a failed attempt is followed by the 1 s sleep, and
\* after the last one waitForServer throws.
Probe(i, r) ==
    /\ seqs[i].pc = "probe"
    /\ r # Threw => seqs[i].port \in Served
    /\ IF probeSucceeds(r)
       THEN /\ seqs' = [seqs EXCEPT ![i].pc = "ready", ![i].attempts = 0]
            /\ server' = record(server, i)
            /\ ret' = deliver(seqs[i].origin, [kind |-> "returned", inst |-> i])
       ELSE /\ IF ~exhausted(seqs[i].attempts + 1)
               THEN /\ seqs' = [seqs EXCEPT ![i].attempts = @ + 1]
                    /\ ret' = NoRet
               ELSE /\ seqs' = [seqs EXCEPT ![i].attempts = 0, ![i].pc = "failed",
                                            ![i].err = "ReadinessTimeout"]
                    /\ ret' = deliver(seqs[i].origin,
                                      [kind |-> "ReadinessTimeout", inst |-> 0])
            /\ UNCHANGED server
    /\ UNCHANGED <<envPort, flow, cfg, mock>>

\* exit listener that takes the null code of a signal for a clean exit
restartsMut(code) == code > 0

\* whether the 'exit' listener calls startServer again
restarts(code) == code # 0

\* exit listener that restarts only the child of an explicit call
ExitEventMut(i, code, access, outcome) ==
    /\ seqs[i].proc = "running"
    /\ (restarts(code) /\ seqs[i].origin = 0) => Len(seqs) < MaxSeqs
    /\ LET sq == [seqs EXCEPT ![i].proc = "exited"]
       IN IF restarts(code) /\ seqs[i].origin = 0
          THEN seqs' = startServer(0, sq, envPort, sq[i].directory,
                                   access, outcome, i).seqs
          ELSE seqs' = sq
    /\ server' = 0
    /\ ret' = NoRet
    /\ UNCHANGED <<envPort, flow, cfg, mock>>

\* the 'exit' listener of child i runs with the given code; access and
\* outcome are those of fs.accessSync and spawn should the listener call
\* startServer
ExitEvent(i, code, access, outcome) ==
    /\ seqs[i].proc = "running"
    /\ restarts(code) => Len(seqs) < MaxSeqs
    /\ LET sq == [seqs EXCEPT ![i].proc = "exited"]
       IN IF restarts(code)
          THEN seqs' = startServer(0, sq, envPort, sq[i].directory,
                                   access, outcome, i).seqs
          ELSE seqs' = sq
    /\ server' = 0
    /\ ret' = NoRet
    /\ UNCHANGED <<envPort, flow, cfg, mock>>

\* stopServer()
\* stopServer that also kills the children of invocations still probing
\* and makes those invocations reject
StopServerCancels ==
    /\ seqs' = [k \in Ids |->
                 IF k = server
                 THEN [seqs[k] EXCEPT !.killed = (seqs[k].proc = "running")]
                 ELSE IF seqs[k].pc = "probe"
                 THEN [seqs[k] EXCEPT !.killed = (seqs[k].proc = "running"),
                                      !.pc = "failed", !.attempts = 0]
                 ELSE seqs[k]]
    /\ server' = 0
    /\ ret' = NoRet
    /\ UNCHANGED <<envPort, flow, cfg, mock>>

\* stopServer that kills the child and keeps the slot
StopServerMut ==
    /\ IF server # 0
       THEN seqs' = [seqs EXCEPT ![server].killed = (seqs[server].proc = "running")]
       ELSE UNCHANGED seqs
    /\ ret' = NoRet
    /\ UNCHANGED <<server, envPort, flow, cfg, mock>>

StopServer ==
    /\ IF server # 0
       THEN /\ seqs' = [seqs EXCEPT ![server].killed = (seqs[server].proc = "running")]
            /\ server' = 0
       ELSE UNCHANGED <<server, seqs>>
    /\ ret' = NoRet
    /\ UNCHANGED <<envPort, flow, cfg, mock>>

\* the value getServer() returns
getServer == server

\* getServer(): the caller receives getServer
GetServer ==
    /\ ret' = NoRet
    /\ UNCHANGED <<server, seqs, envPort, flow, cfg, mock>>

\* listener that treats a child 'error' as the end of the child
ErrorEventMut(i) ==
    /\ seqs[i].proc = "failed"
    /\ server' = 0
    /\ ret' = NoRet
    /\ UNCHANGED <<seqs, envPort, flow, cfg, mock>>

\* lines 285-287: the 'error' listener of a child that could not be created
\* logs
ErrorEvent(i) ==
    /\ seqs[i].proc = "failed"
    /\ ret' = NoRet
    /\ UNCHANGED <<server, seqs, envPort, flow, cfg, mock>>

\* lines 277-283: the 'data' listener of the child's stdout or stderr logs
OutputData(i, stream) ==
    /\ seqs[i].proc = "running"
    /\ stream \in {"stdout", "stderr"}
    /\ ret' = NoRet
    /\ UNCHANGED <<server, seqs, envPort, flow, cfg, mock>>

\* the spawn outcomes to tell apart for a startServer call: all of them if
\* the call spawns in its first step (accessible directory, port forced by
\* OPENCODE_PORT), else one, which the call does not get to in that step
Spawns(access) ==
    IF access /\ parsedPort(envPort) # 0 THEN SpawnOutcomes ELSE {"ok"}

Next ==
    \/ \E d \in Dirs, access \in BOOLEAN :
          \E o \in Spawns(access) : StartCall(d, access, o)
    \/ \E i \in Ids, p \in Ports, o \in SpawnOutcomes : AllocOk(i, p, o)
    \/ \E i \in Ids : AllocFail(i)
    \/ \E i \in Ids, r \in Responses : Probe(i, r)
    \/ \E i \in Ids, code \in ExitCodes :
          \E access \in (IF restarts(code) THEN BOOLEAN ELSE {TRUE}) :
             \E o \in Spawns(restarts(code) /\ access) : ExitEvent(i, code, access, o)
    \/ \E i \in Ids : ErrorEvent(i)
    \/ \E i \in Ids, stream \in {"stdout", "stderr"} : OutputData(i, stream)
    \/ StopServer
    \/ GetServer

Spec == Init /\ [][Next]_vars

\* the event loop eventually runs the continuation of every suspended
\* invocation: getOpenPort settles, every fetch settles within its 2 s
\* timeout and every 1 s sleep ends
Resume(i) ==
    /\ i \in Ids
    /\ \/ \E p \in Ports, o \in SpawnOutcomes : AllocOk(i, p, o)
       \/ AllocFail(i)
       \/ \E r \in Responses : Probe(i, r)

FairSpec == Spec /\ \A i \in 1..MaxSeqs : WF_vars(Resume(i))

TypeOK ==
    /\ server \in 0..MaxSeqs
    /\ Len(seqs) <= MaxSeqs

\* ------------------------------------------------------------ vocabulary
\* invocation i is Starting: spawned, readiness not yet decided
Starting(i) == seqs[i].pc = "probe"
\* instances the slot has held
Recorded == {i \in Ids : seqs[i].pc = "ready"}
\* the slot holds an instance whose subprocess has not reported exit
LiveInSlot == server # 0 /\ seqs[server].proc = "running"
\* the record an exit listener appended by calling startServer
Appended(sq1, sq2, i) ==
    /\ Len(sq2) = Len(sq1) + 1
    /\ sq2[Len(sq2)].origin = i
    /\ sq2[Len(sq2)].directory = sq1[i].directory

\* ------------------------------------------------------------------ C1
\* C1: no two start sequences (from spawn to the outcome of the readiness
\* probe) are in progress at the same time.
C1_SpawnSequenceExclusion ==
    Cardinality({i \in Ids : Starting(i)}) <= 1

\* ------------------------------------------------------------------ C2
\* C2: among the instances the slot has ever held, at most one has a
\* subprocess that has not reported exit.
C2_AtMostOneLive ==
    Cardinality({i \in Recorded : seqs[i].proc = "running"}) <= 1

\* ------------------------------------------------------------------ C3
\* C3: whenever the slot holds an instance, the subprocess of that instance
\* has not reported exit.
C3_SlotIsLive ==
    server # 0 => seqs[server].proc = "running"

\* ------------------------------------------------------------------ C4
\* C4: the slot is assigned an instance only by the step in which a probe of
\* that instance's own start sequence was answered with a status below 500
\* by a server on its port, and while a sequence is not yet Ready neither
\* the slot nor a value returned by getServer or startServer is its
\* instance.
C4_ReadinessBeforeExposure ==
    /\ [](\A i \in Ids : seqs[i].pc \in {"alloc", "probe"}
                           => getServer # i /\ ret.inst # i)
    /\ [][\A i \in Ids :
            (server' = i /\ server # i)
              => /\ seqs[i].pc = "probe"
                 /\ seqs[i].port \in Served
                 /\ \E r \in {200, 404} : Probe(i, r)
                 /\ \A r \in Responses : Probe(i, r) => (r # Threw /\ r < 500)]_vars

\* an explicit start has just returned its instance while another start
\* sequence is still probing
C4_Witness ==
    /\ server # 0
    /\ ret = [kind |-> "returned", inst |-> server]
    /\ \E j \in Ids : Starting(j)

\* ------------------------------------------------------------------ C5
\* C5: a startServer(d2) call made while the slot holds a live instance
\* returns that instance and changes neither the slot nor the invocations
\* (no directory check, no port, no spawn), whatever d2 and whether or not
\* d2 is accessible.
C5_Reentrancy ==
    [][\A d \in Dirs, access \in BOOLEAN :
         (LiveInSlot /\ \E o \in SpawnOutcomes : StartCall(d, access, o))
           => /\ ret' = [kind |-> "reuse", inst |-> server]
              /\ UNCHANGED <<server, seqs>>]_vars

\* a call was answered with the live instance of the slot
C5_Witness ==
    /\ LiveInSlot
    /\ ret = [kind |-> "reuse", inst |-> server]

\* ------------------------------------------------------------------ C6
\* C6: a non-zero exit of the slot's subprocess makes the exit listener call
\* startServer for the same directory; the restart never stays suspended
\* for ever; and the step that ends it either rejects (directory, port or
\* readiness failure) or puts into the slot a new instance, with another
\* subprocess than the exited one and the directory of the exited one.
C6_CrashRecovery ==
    /\ [][\A i \in Ids, code \in ExitCodes \ {0}, access \in BOOLEAN, o \in SpawnOutcomes :
            (server = i /\ ExitEvent(i, code, access, o)) => Appended(seqs, seqs', i)]_vars
    /\ [][\A k \in Ids :
            (/\ seqs[k].origin # 0
             /\ seqs[k].pc \in {"alloc", "probe"}
             /\ seqs'[k].pc \notin {"alloc", "probe"})
              => \/ seqs'[k].pc = "failed"
                 \/ /\ server' = k
                    /\ seqs[k].origin # k
                    /\ seqs'[seqs[k].origin].proc = "exited"
                    /\ seqs'[k].directory = seqs'[seqs[k].origin].directory]_vars
    /\ []<>(\A k \in Ids : seqs[k].origin # 0 => seqs[k].pc \notin {"alloc", "probe"})

\* the slot holds the instance of a restart made for an instance that had
\* been in the slot
C6_Witness ==
    /\ server # 0
    /\ seqs[server].origin # 0
    /\ seqs[seqs[server].origin].pc = "ready"
    /\ seqs[server].proc = "running"

\* ------------------------------------------------------------------ C7
\* C7: once stopServer has killed the subprocess of an instance, the exit of
\* that subprocess starts no restart.
C7_StopIsFinal ==
    \A k \in Ids : seqs[k].origin # 0 => ~seqs[seqs[k].origin].killed

\* ------------------------------------------------------------------ C8
\* C8: when the subprocess of the slot's instance reports exit, the slot is
\* null after the exit listener ran, and the listener calls startServer for
\* the same directory if and only if the code is not zero.
C8_ExitTransition ==
    [][\A i \in Ids, code \in ExitCodes, access \in BOOLEAN, o \in SpawnOutcomes :
         (server = i /\ ExitEvent(i, code, access, o))
           => /\ server' = 0
              /\ IF code # 0
                 THEN Appended(seqs, seqs', i)
                 ELSE Len(seqs') = Len(seqs)]_vars

\* the slot is null after the subprocess of a recorded instance exited and
\* its exit listener started a restart
C8_Witness ==
    /\ server = 0
    /\ \E k \in Ids :
         /\ seqs[k].origin # 0
         /\ seqs[seqs[k].origin].pc = "ready"
         /\ seqs[seqs[k].origin].proc = "exited"
         /\ seqs[k].pc \in {"alloc", "probe"}

\* ------------------------------------------------------------------ C9
\* C9: a subprocess that exits before its start sequence reached Ready is
\* never put into the slot, and the exit of a subprocess whose sequence did
\* not reach Ready starts no restart.
C9_FailedStartIsTerminal ==
    /\ [][\A i \in Ids : (server' = i /\ server # i) => seqs[i].proc = "running"]_vars
    /\ [][\A i \in Ids, code \in ExitCodes, access \in BOOLEAN, o \in SpawnOutcomes :
            (seqs[i].pc # "ready" /\ ExitEvent(i, code, access, o))
              => Len(seqs') = Len(seqs)]_vars

\* ------------------------------------------------------------------ C10
\* C10: when no instance with a running subprocess exists and the directory
\* is not accessible, startServer fails with the directory error, without a
\* port and without a subprocess, and leaves the slot and the existing
\* invocations as they were.
C10_DirectoryPrecondition ==
    [][\A d \in Dirs :
         ((\A j \in Recorded : seqs[j].proc # "running")
            /\ \E o \in SpawnOutcomes : StartCall(d, FALSE, o))
           => /\ ret' = [kind |-> "DirectoryError", inst |-> 0]
              /\ server' = server
              /\ Len(seqs') = Len(seqs) + 1
              /\ \A j \in Ids : seqs'[j] = seqs[j]
              /\ seqs'[Len(seqs')].proc = "none"
              /\ seqs'[Len(seqs')].port = 0]_vars

\* ------------------------------------------------------------------ C11
\* C11: waitForServer makes at most MaxAttempts probes: a probe answered
\* with a status below 500 ends the loop with success at once, whichever
\* attempt it is; a probe that throws or is answered with 500 or more counts
\* as failed and is followed by the next attempt, until the failed probe
\* number MaxAttempts, which ends the loop with the readiness timeout.
C11_ReadinessProber ==
    /\ [](\A i \in Ids : seqs[i].attempts < MaxAttempts)
    /\ [][\A i \in Ids, r \in Responses :
            Probe(i, r)
              => IF r \in {200, 404}
                 THEN seqs'[i].pc = "ready"
                 ELSE IF seqs[i].attempts + 1 = MaxAttempts
                 THEN seqs'[i].pc = "failed" /\ seqs'[i].err = "ReadinessTimeout"
                 ELSE /\ seqs'[i].pc = "probe"
                      /\ seqs'[i].attempts = seqs[i].attempts + 1]_vars

\* one sequence ran out of attempts and another was answered
C11_Witness ==
    /\ \E i \in Ids : seqs[i].err = "ReadinessTimeout"
    /\ \E j \in Ids : seqs[j].pc = "ready"

\* ------------------------------------------------------------------ C12
\* what an explicit call for an accessible directory d does at once: it
\* returns the slot's instance, of directory d if sameDir is required, or
\* it begins an invocation for d
StartOutcome(d, sameDir) ==
    \/ /\ server # 0
       /\ ret' = [kind |-> "reuse", inst |-> server]
       /\ sameDir => seqs[server].directory = d
       /\ UNCHANGED seqs
    \/ /\ Len(seqs') = Len(seqs) + 1
       /\ seqs'[Len(seqs')].directory = d
       /\ seqs'[Len(seqs')].origin = 0
       /\ \/ seqs'[Len(seqs')].pc \in {"alloc", "probe"} /\ ret' = NoRet
          \/ seqs'[Len(seqs')].pc = "failed" /\ ret'.kind = "SpawnError"

\* an explicit invocation ends by returning its own instance or by a
\* rejection with a port, spawn or readiness error, its directory never
\* changes, and no explicit invocation stays pending for ever
StartEnds ==
    /\ [][\A k \in Ids :
            (/\ seqs[k].origin = 0
             /\ seqs[k].pc \in {"alloc", "probe"}
             /\ seqs'[k].pc \notin {"alloc", "probe"})
              => \/ seqs'[k].pc = "ready" /\ ret' = [kind |-> "returned", inst |-> k]
                 \/ /\ seqs'[k].pc = "failed"
                    /\ ret'.kind \in {"PortError", "SpawnError", "ReadinessTimeout"}]_vars
    /\ [][\A k \in Ids : seqs'[k].directory = seqs[k].directory]_vars
    /\ []<>(\A k \in Ids : seqs[k].origin = 0 => seqs[k].pc \notin {"alloc", "probe"})

\* C12 (as stated): every explicit startServer(d) for an accessible d ends,
\* either by returning an instance whose directory is d or by a documented
\* error.
C12_StartTerminates ==
    /\ [][\A d \in Dirs, o \in SpawnOutcomes :
            StartCall(d, TRUE, o) => StartOutcome(d, TRUE)]_vars
    /\ StartEnds

\* C12 (amended): every explicit startServer(d) for an accessible d ends,
\* either by returning the instance the slot already holds, whatever its
\* directory, or by returning the instance of an invocation it began for d,
\* or by a port, spawn or readiness error.
C12_StartTerminatesOrReuses ==
    /\ [][\A d \in Dirs, o \in SpawnOutcomes :
            StartCall(d, TRUE, o) => StartOutcome(d, FALSE)]_vars
    /\ StartEnds

\* an explicit call for "b" has just returned its own instance
C12_Witness ==
    /\ ret.kind = "returned"
    /\ seqs[ret.inst].origin = 0
    /\ seqs[ret.inst].directory = "b"

\* ------------------------------------------------------------------ C13
\* the child of the explicit invocation k exited with a code other than 0
\* (its exit listener called startServer) while k was still probing
DiedEarly(k) ==
    /\ seqs[k].origin = 0
    /\ seqs[k].pc = "probe"
    /\ seqs[k].proc = "exited"
    /\ \E r \in Ids : seqs[r].origin = k

\* C13: with OPENCODE_PORT unset, an explicit startServer whose child exits
\* with code 1 before a probe was answered goes on probing and ends only at
\* the last attempt, with the readiness timeout: it returns no instance and
\* fails no earlier and with no other error.
C13_EarlyDeathTimesOut ==
    [][\A k \in Ids :
         (envPort = "unset" /\ DiedEarly(k))
           => \/ seqs'[k].pc = "probe"
              \/ /\ seqs'[k].pc = "failed"
                 /\ seqs[k].attempts + 1 = MaxAttempts
                 /\ ret' = [kind |-> "ReadinessTimeout", inst |-> 0]]_vars

\* ------------------------------------------------------------------ C14
\* C14: an explicit startServer whose child could not be created (the child
\* object emitted 'error') ends by rejecting with a spawn error, not with
\* the readiness timeout and not by returning an instance.
C14_SpawnFailureIsSpawnError ==
    [][\A k \in Ids :
         (/\ seqs[k].origin = 0
          /\ seqs[k].proc = "failed"
          /\ seqs[k].pc = "probe"
          /\ seqs'[k].pc # "probe")
           => /\ seqs'[k].pc = "failed"
              /\ ret' = [kind |-> "SpawnError", inst |-> 0]]_vars

\* ------------------------------------------------------------------ C15
\* invocation k rejects in this step, at its call or on resuming
Failing(k) ==
    /\ k \in 1..Len(seqs')
    /\ seqs'[k].pc = "failed"
    /\ k \in Ids => seqs[k].pc # "failed"

C16_StopContract ==
    /\ [][StopServer
            => IF server # 0
               THEN /\ server' = 0
                    /\ Len(seqs') = Len(seqs)
                    /\ \A j \in Ids \ {server} : seqs'[j] = seqs[j]
                    /\ seqs'[server] =
                         [seqs[server] EXCEPT !.killed = (seqs[server].proc = "running")]
               ELSE UNCHANGED <<server, seqs, envPort>>]_vars
    /\ [][GetServer => UNCHANGED <<server, seqs, envPort>>]_vars
    /\ [](\A j \in Ids : seqs[j].killed => server # j)

\* the slot's child was sent the signal and its exit is still to come
C16_Witness ==
    /\ server = 0
    /\ \E j \in Ids : seqs[j].killed /\ seqs[j].proc = "running" /\ seqs[j].pc = "ready"

\* ------------------------------------------------------------------ C17
\* One startServer invocation followed through every use of its `port`
\* (lines 251-327), under every text of OPENCODE_PORT.
\*   port    the constant of line 253, 0 before it is set
\*   got     what getOpenPort resolved with, one entry per call of it
\*   arg     the text after "--port" on the child's command line
\*   probed  the port in the URL of each probe, answers the outcome of each
\*   inst    the port field of the instance put in the slot, 0 before

\* port.toString() on line 258 and `${port}` on line 223
portText(n) ==
    CASE n = 1 -> "1"
      [] n = 2 -> "2"

FlowInit ==
    /\ server = 0
    /\ seqs = <<>>
    /\ ret = NoRet
    /\ cfg = NoConfig
    /\ mock = NoMock
    /\ envPort \in EnvTexts
    /\ flow = [pc |-> "resolve", port |-> 0, got |-> <<>>, arg |-> "",
               probed |-> <<>>, answers |-> <<>>, inst |-> 0]

\* line 253, OPENCODE_PORT usable: the port is the number it holds
ResolveEnv ==
    /\ flow.pc = "resolve"
    /\ parsedPort(envPort) # 0
    /\ flow' = [flow EXCEPT !.port = parsedPort(envPort), !.pc = "spawn"]
    /\ UNCHANGED <<server, seqs, envPort, ret, cfg, mock>>

\* line 253, otherwise: the port is what getOpenPort resolves with
ResolveAlloc(p) ==
    /\ flow.pc = "resolve"
    /\ parsedPort(envPort) = 0
    /\ flow' = [flow EXCEPT !.got = Append(@, p), !.port = p, !.pc = "spawn"]
    /\ UNCHANGED <<server, seqs, envPort, ret, cfg, mock>>

\* line 253, otherwise, and getOpenPort rejects
ResolveFail ==
    /\ flow.pc = "resolve"
    /\ parsedPort(envPort) = 0
    /\ flow' = [flow EXCEPT !.got = Append(@, 0), !.pc = "failed"]
    /\ UNCHANGED <<server, seqs, envPort, ret, cfg, mock>>

\* lines 258-275: the child's command line
FlowSpawn ==
    /\ flow.pc = "spawn"
    /\ flow' = [flow EXCEPT !.arg = portText(flow.port), !.pc = "probe"]
    /\ UNCHANGED <<server, seqs, envPort, ret, cfg, mock>>

\* lines 220-235 and 301-329: one probe of waitForServer(port); when it is
\* answered startServer builds the instance with `port`
FlowProbe(r) ==
    /\ flow.pc = "probe"
    /\ LET f == [flow EXCEPT !.probed = Append(@, portText(flow.port)),
                             !.answers = Append(@, r)]
       IN flow' = IF probeSucceeds(r)
                  THEN [f EXCEPT !.inst = flow.port, !.pc = "done"]
                  ELSE IF exhausted(Len(f.probed))
                  THEN [f EXCEPT !.pc = "failed"]
                  ELSE f
    /\ UNCHANGED <<server, seqs, envPort, ret, cfg, mock>>

FlowNext ==
    \/ ResolveEnv
    \/ \E p \in Ports : ResolveAlloc(p)
    \/ ResolveFail
    \/ FlowSpawn
    \/ \E r \in Responses : FlowProbe(r)

PortSpec == FlowInit /\ [][FlowNext]_vars

\* C17: the port of an instance is the port on its own child's command line
\* and the port every probe of its start went to; it is the number in
\* OPENCODE_PORT when that holds a number other than 0, with no call of
\* getOpenPort, and otherwise (unset, empty, 0, not a number) the result of
\* the one call of getOpenPort the invocation made; once set it stays.
C17_PortBinding ==
    /\ [](flow.pc = "done"
            => /\ flow.arg = portText(flow.inst)
               /\ \A n \in 1..Len(flow.probed) : flow.probed[n] = portText(flow.inst)
               /\ CASE envPort = "1" -> flow.inst = 1 /\ flow.got = <<>>
                    [] envPort = "2" -> flow.inst = 2 /\ flow.got = <<>>
                    [] OTHER -> flow.got = <<flow.inst>>)
    /\ [][flow.pc = "done" => flow'.inst = flow.inst]_vars

\* OPENCODE_PORT=abc: the instance has the port getOpenPort resolved with
C17_Witness ==
    /\ flow.pc = "done"
    /\ envPort = "abc"
    /\ flow.got = <<2>>
    /\ flow.inst = 2

\* ------------------------------------------------------------------ C18
\* C18: data on a child's stdout or stderr and a child's 'error' event leave
\* the slot and every invocation as they are. The slot changes only in a
\* step of a probe answer, an exit event or stopServer; an invocation leaves
\* its probe loop only by a probe of its own; an invocation begins only in
\* an explicit call or an exit event.
C18_OutputIsNoSignal ==
    /\ [][\A i \in Ids :
            (ErrorEvent(i) \/ OutputData(i, "stdout") \/ OutputData(i, "stderr"))
              => UNCHANGED <<server, seqs>>]_vars
    /\ [][server' # server
            => \/ \E i \in Ids, r \in Responses : Probe(i, r)
               \/ \E i \in Ids, code \in ExitCodes, access \in BOOLEAN, o \in SpawnOutcomes :
                     ExitEvent(i, code, access, o)
               \/ StopServer]_vars
    /\ [][\A k \in Ids :
            (seqs[k].pc = "probe" /\ seqs'[k].pc # "probe")
              => \E r \in Responses : Probe(k, r)]_vars
    /\ [][Len(seqs') # Len(seqs)
            => \/ \E d \in Dirs, access \in BOOLEAN, o \in SpawnOutcomes : StartCall(d, access, o)
               \/ \E i \in Ids, code \in ExitCodes, access \in BOOLEAN, o \in SpawnOutcomes :
                     ExitEvent(i, code, access, o)]_vars

\* a child that could not be created has emitted 'error'; its invocation is
\* still probing and the slot still holds another instance
C18_Witness ==
    /\ server # 0
    /\ \E i \in Ids : /\ seqs[i].proc = "failed"
                      /\ seqs[i].pc = "probe"
                      /\ seqs[i].attempts > 0

\* ------------------------------------------------------------------ C19
\* loadConfig(directory) of config.ts, one call: cfg holds the two files
\* and the environment it reads, the index of the path it reads next and
\* the object `config` it builds.

Keys == {"botToken", "chatId", "threadId", "updatesUrl", "sendUrl"}
StrKeys == Keys \ {"threadId"}

\* the environment variable that overrides a key
EnvVar(k) ==
    CASE k = "botToken"   -> "TELEGRAM_BOT_TOKEN"
      [] k = "chatId"     -> "TELEGRAM_CHAT_ID"
      [] k = "threadId"   -> "TELEGRAM_THREAD_ID"
      [] k = "updatesUrl" -> "TELEGRAM_UPDATES_URL"
      [] k = "sendUrl"    -> "TELEGRAM_SEND_URL"

\* process.env.X of a variable that is not set
Unset == "<unset>"
StrTexts == {Unset, "", "e"}
ThreadTexts == {Unset, "", "abc", "5", " "}

\* `if (process.env.X)`: set and not the empty string
truthy(t) == t # Unset /\ t # ""

\* Number(text): <<n>> for a number, <<>> for NaN; blank text is 0
Number(t) ==
    CASE t = "5"   -> <<5>>
      [] t = " "   -> <<0>>
      [] t = ""    -> <<0>>
      [] t = "abc" -> <<>>

\* a file: missing (readFile rejects), not JSON (JSON.parse throws), JSON
\* that is no object (a number), or an object with some of the keys
KeySets == {{}, Keys} \cup {{k} : k \in Keys}
Objects(v, n) ==
    {[kind |-> "object", fields |-> [k \in S |-> IF k = "threadId" THEN n ELSE v]] :
        S \in KeySets}
NoObject == {[kind |-> c, fields |-> <<>>] : c \in {"missing", "invalid", "number"}}
HomeFiles == NoObject \cup Objects("h", 7)
ProjectFiles ==
    NoObject \cup Objects("p", 8)
             \cup {[kind |-> "object", fields |-> [k \in {"botToken"} |-> ""]]}

\* the list in the other order
configPathsMut == <<"project", "home">>

\* lines 23-26: the home file first, then the file of the directory
configPaths == <<"home", "project">>

\* lines 31-44: Object.assign(config, JSON.parse(content)), or the catch
\* when the file cannot be read or parsed; assigning a number copies nothing
assign(config, file) ==
    IF file.kind = "object"
    THEN [k \in DOMAIN config \cup DOMAIN file.fields |->
            IF k \in DOMAIN file.fields THEN file.fields[k] ELSE config[k]]
    ELSE config

\* config.k = v
set(config, key, v) ==
    [k \in DOMAIN config \cup {key} |-> IF k = key THEN v ELSE config[k]]

\* lines 50-72, for the keys in the order of the source
RECURSIVE overrides(_, _, _)
overrides(config, env, keys) ==
    IF keys = <<>> THEN config
    ELSE LET k == Head(keys)
             t == env[EnvVar(k)]
             c == IF ~truthy(t) THEN config
                  ELSE IF k # "threadId" THEN set(config, k, t)
                  ELSE IF Number(t) # <<>> THEN set(config, k, Number(t)[1])
                  ELSE config
         IN overrides(c, env, Tail(keys))

ConfigInit ==
    /\ server = 0
    /\ seqs = <<>>
    /\ envPort = "unset"
    /\ ret = NoRet
    /\ flow = NoFlow
    /\ mock = NoMock
    /\ \E h \in HomeFiles, p \in ProjectFiles,
          e \in [{EnvVar(k) : k \in StrKeys} -> StrTexts], t \in ThreadTexts :
          cfg = [pc |-> "read", next |-> 1,
                 files |-> [home |-> h, project |-> p],
                 env |-> [v \in {EnvVar(k) : k \in Keys} |->
                            IF v = "TELEGRAM_THREAD_ID" THEN t ELSE e[v]],
                 config |-> <<>>]

\* one turn of the loop of lines 30-45; after the last one the overrides
\* are applied and loadConfig returns config
ReadFile(n) ==
    /\ cfg.pc = "read"
    /\ cfg.next = n
    /\ LET c == assign(cfg.config, cfg.files[configPaths[n]])
       IN cfg' = IF n < Len(configPaths)
                 THEN [cfg EXCEPT !.config = c, !.next = n + 1]
                 ELSE [cfg EXCEPT !.pc = "done",
                                  !.config = overrides(c, cfg.env,
                                     <<"botToken", "chatId", "threadId",
                                       "updatesUrl", "sendUrl">>)]
    /\ UNCHANGED <<server, seqs, envPort, ret, flow, mock>>

ConfigNext == \E n \in 1..Len(configPaths) : ReadFile(n)

ConfigSpec == ConfigInit /\ [][ConfigNext]_vars

\* the file was read and parsed and is an object with the key k
Provides(file, k) == file.kind = "object" /\ k \in DOMAIN file.fields

\* config has for k what the files give: the value of the directory's file,
\* else that of the home file, else nothing
FromFiles(config, files, k) ==
    IF Provides(files.project, k)
    THEN k \in DOMAIN config /\ config[k] = files.project.fields[k]
    ELSE IF Provides(files.home, k)
    THEN k \in DOMAIN config /\ config[k] = files.home.fields[k]
    ELSE k \notin DOMAIN config

\* C19: for botToken, chatId, updatesUrl and sendUrl loadConfig returns the
\* environment variable's value when it is set and not empty, else the
\* value of <directory>/.opencode/telegram.json, else the value of
\* ~/.config/opencode/telegram.json, else nothing; a file that is missing or
\* does not parse gives no value; and when TELEGRAM_THREAD_ID is not a
\* number threadId is what the files give.
C19_ConfigPrecedence ==
    cfg.pc = "done"
      => /\ \A k \in StrKeys :
              IF cfg.env[EnvVar(k)] \notin {Unset, ""}
              THEN k \in DOMAIN cfg.config /\ cfg.config[k] = cfg.env[EnvVar(k)]
              ELSE FromFiles(cfg.config, cfg.files, k)
         /\ cfg.env["TELEGRAM_THREAD_ID"] = "abc"
              => FromFiles(cfg.config, cfg.files, "threadId")

\* both files give every key, TELEGRAM_BOT_TOKEN is empty, TELEGRAM_CHAT_ID
\* is set and TELEGRAM_THREAD_ID is no number
C19_Witness ==
    /\ cfg.pc = "done"
    /\ DOMAIN cfg.files.home.fields = Keys
    /\ DOMAIN cfg.files.project.fields = Keys
    /\ cfg.env["TELEGRAM_BOT_TOKEN"] = ""
    /\ cfg.env["TELEGRAM_CHAT_ID"] = "e"
    /\ cfg.env["TELEGRAM_THREAD_ID"] = "abc"
    /\ cfg.config["botToken"] = "p"
    /\ cfg.config["chatId"] = "e"
    /\ cfg.config["threadId"] = 8

C21_ExitAttribution ==
    [][\A i \in Ids, code \in ExitCodes, access \in BOOLEAN, o \in SpawnOutcomes :
         (server # i /\ ExitEvent(i, code, access, o)) => server' = server]_vars

\* ------------------------------------------------------------------ C22
\* C22: every child that has not exited, and was not sent the signal by
\* stopServer, is the child of the instance in the slot or of an invocation
\* still in its probe loop; so the child of an invocation that ended with
\* the readiness timeout is not running.
C22_NoOrphan ==
    \A i \in Ids :
        (seqs[i].proc = "running" /\ ~seqs[i].killed)
          => server = i \/ seqs[i].pc = "probe"

\* ------------------------------------------------------------------ C23
\* C23: stopServer called while the slot is null and an invocation, explicit
\* or made by an exit listener, is in its probe loop kills nothing and
\* changes no invocation; the invocation goes on, and where a server
\* listens on its port the step in which its probe is answered and the slot
\* becomes its instance is possible right after, with no startServer call.
C23_StopDuringStart ==
    [][(server = 0 /\ (\E k \in Ids : Starting(k)) /\ StopServer)
         => /\ UNCHANGED <<server, seqs>>
            /\ \A k \in Ids :
                 (Starting(k) /\ seqs[k].port \in Served)
                   => ENABLED (Probe(k, 200) /\ server' = k)]_vars

\* the slot is null, nothing was delivered, and an invocation past its
\* first probe has a server on its port
C23_Witness ==
    /\ server = 0
    /\ ret = NoRet
    /\ \E k \in Ids : /\ Starting(k)
                      /\ seqs[k].attempts > 0
                      /\ seqs[k].port \in Served

\* ------------------------------------------------------------------ C24
\* The mock server of test/mock-server.ts with one polling client. mock is
\*   updates     the array `updates`, each update with its update_id and
\*               its chat_id
\*   lastServed  lastServedUpdateId
\*   filter      the client's chat_id parameter, "" when it sends none
\*   since       the client's cursor: the largest update_id it received
\*   received    the update_ids the client received, in order of arrival

Chats == {"x", "y"}
Update(id, c) == [update_id |-> id, chat_id |-> c]
AllUpdates == {Update(id, c) : id \in 1..MaxId, c \in Chats}

\* lines 60-61: what loadFixtures leaves, a list sorted by update_id (the
\* empty list when the file is missing or does not parse)
Fixtures ==
    {<<>>} \cup {<<u>> : u \in AllUpdates}
           \cup {p \in AllUpdates \X AllUpdates : p[1].update_id <= p[2].update_id}

\* lines 212-213: updates.push(update) and the stable sort by update_id of
\* a list that was sorted before the push
push(us, u) ==
    LET k == Cardinality({n \in 1..Len(us) : us[n].update_id <= u.update_id})
    IN SubSeq(us, 1, k) \o <<u>> \o SubSeq(us, k + 1, Len(us))

\* Array.prototype.slice(0, n)
slice(us, n) == SubSeq(us, 1, IF Len(us) < n THEN Len(us) ELSE n)

\* lines 69-79: the batch of getNextUpdates(since)
IsAfter(u, since) == u.update_id > since
getNextUpdates(us, since) ==
    slice(SelectSeq(us, LAMBDA u : IsAfter(u, since)), Limit)

\* lines 85-89: the batch, then the chat_id filter if the parameter is set
handleUpdatesEndpoint(us, since, chat) ==
    LET batch == getNextUpdates(us, since)
    IN IF chat # "" THEN SelectSeq(batch, LAMBDA u : u.chat_id = chat) ELSE batch

MockInit ==
    /\ server = 0
    /\ seqs = <<>>
    /\ envPort = "unset"
    /\ ret = NoRet
    /\ flow = NoFlow
    /\ cfg = NoConfig
    /\ \E f \in Fixtures, c \in {""} \cup Chats :
          mock = [updates |-> f, lastServed |-> 0, filter |-> c,
                  since |-> 0, received |-> <<>>]

\* GET /updates?since=<cursor>[&chat_id=<filter>] by the client, which
\* then moves its cursor to the largest update_id it received
Poll ==
    /\ LET batch == getNextUpdates(mock.updates, mock.since)
           resp == handleUpdatesEndpoint(mock.updates, mock.since, mock.filter)
       IN mock' = [mock EXCEPT
                     !.lastServed = IF batch # <<>>
                                    THEN batch[Len(batch)].update_id ELSE @,
                     !.received = @ \o [n \in 1..Len(resp) |-> resp[n].update_id],
                     !.since = IF resp # <<>> THEN resp[Len(resp)].update_id ELSE @]
    /\ UNCHANGED <<server, seqs, envPort, ret, flow, cfg>>

\* POST /_control?action=inject: an update_id of 0 is refused with 400
Inject(id, c) ==
    /\ Len(mock.updates) < MaxUpdates
    /\ mock' = IF id = 0 THEN mock
               ELSE [mock EXCEPT !.updates = push(@, Update(id, c))]
    /\ UNCHANGED <<server, seqs, envPort, ret, flow, cfg>>

\* GET /_control?action=reset
Reset ==
    /\ mock' = [mock EXCEPT !.lastServed = 0]
    /\ UNCHANGED <<server, seqs, envPort, ret, flow, cfg>>

MockNext ==
    \/ Poll
    \/ \E id \in 0..MaxId, c \in Chats : Inject(id, c)
    \/ Reset

MockSpec == MockInit /\ [][MockNext]_vars

\* the client keeps polling
MockFairSpec == MockSpec /\ WF_vars(Poll)

\* the update passes the client's filter
Matches(u) == mock.filter = "" \/ u.chat_id = mock.filter

\* C24: what one poll delivers are update_ids above the cursor it was sent
\* with, in ascending order and at most Limit of them; and a client that
\* keeps polling from the largest update_id it received is again and again
\* up to date: no update that passes its filter and lies above its cursor
\* is left undelivered. (The second part is what the statement implies for
\* the updates above the cursor; the statement asks it of every update.)
C24_UpdatesCursor ==
    /\ [][LET old == Len(mock.received)
              new == Len(mock'.received)
          IN /\ new - old <= Limit
             /\ \A n \in (old + 1)..new :
                  /\ mock'.received[n] > mock.since
                  /\ n > old + 1 => mock'.received[n - 1] <= mock'.received[n]]_vars
    /\ []<>(\A n \in 1..Len(mock.updates) :
               ~(Matches(mock.updates[n]) /\ mock.updates[n].update_id > mock.since))
====
